---- MODULE Spec2Model ----
(***************************************************************************)
(* Model of the AdaptAI editor (src/App.tsx, src/types.ts): the live       *)
(* Document held in React state (sections + designSystem), the handlers    *)
(* that mutate it, and the asynchronous AI calls whose continuations run   *)
(* when the collaborator's promise settles.                                *)
(*                                                                         *)
(* JavaScript objects are functions from key strings to values; an         *)
(* optional key that is undefined is a key outside the DOMAIN.  Arrays are *)
(* sequences.  Strings that the code inspects (the prompt, which is        *)
(* trimmed) are sequences of characters; all other strings are opaque.     *)
(*                                                                         *)
(* Pure navigation state that no modelled handler reads or writes          *)
(* (device, showCode, codeTab, copied, gallerySubTab, editingTextElement,  *)
(* showScrollTop) is left out: each can be set freely by its own button at *)
(* any time, so a control guarded by it is reachable whenever the other    *)
(* guards hold.                                                            *)
(***************************************************************************)
EXTENDS Integers, Sequences, FiniteSets, TLC

VARIABLES prompt, sections, designSystem, isGenerating, savedProjects,
          activeTab, selectedId, inflight, issued, edits, lastOp

\* prompt .. selectedId are the useState cells of App.  The others record
\* what React state does not hold:
\*   inflight  the AI calls awaiting their promise, each [id, kind]
\*   issued    how many AI calls have been issued; the latest call has id = issued
\*   edits     how many style edits have been made
\*   lastOp    the handler that ran last, with its arguments

vars == <<prompt, sections, designSystem, isGenerating, savedProjects,
          activeTab, selectedId, inflight, issued, edits, lastOp>>

(* ---------------------------- bounds ----------------------------------- *)
\* AI requests issued in one session
MaxRequests == 2
\* style edits (typography / design-system patches) in one session
MaxEdits == 1
\* direct calls of the mutation operations on one Document
MaxCalls == 2

(* ------------------------- JavaScript helpers -------------------------- *)
\* the empty object literal {}
EmptyObj == [k \in {} |-> TRUE]

\* object spread { ...a, ...b }: b's keys win, a's other keys are kept
Spread(a, b) ==
  [k \in (DOMAIN a) \cup (DOMAIN b) |-> IF k \in DOMAIN b THEN b[k] ELSE a[k]]

\* obj[key] || {}  (an undefined member falls back to the empty object)
OrEmpty(obj, key) == IF key \in DOMAIN obj THEN obj[key] ELSE EmptyObj

\* String.prototype.trim on a sequence of characters
RECURSIVE TrimLeft(_)
TrimLeft(s) == IF s # <<>> /\ Head(s) = " " THEN TrimLeft(Tail(s)) ELSE s

RECURSIVE TrimRight(_)
TrimRight(s) ==
  IF s # <<>> /\ s[Len(s)] = " " THEN TrimRight(SubSeq(s, 1, Len(s) - 1)) ELSE s

Trim(s) == TrimRight(TrimLeft(s))

(* ----------------------------- types.ts -------------------------------- *)
\* LayoutSection.type, the closed enumeration
SectionTypes ==
  {"navbar", "hero", "features", "stats", "pricing", "testimonials", "faq",
   "footer", "cta", "contact", "logoCloud", "newsletter", "team", "timeline"}

\* a registry that lost the entry of the last enumerated type
SECTION_COMPONENTSWithoutTimeline ==
  {"navbar", "hero", "features", "pricing", "testimonials", "footer",
   "contact", "cta", "stats", "faq", "logoCloud", "newsletter", "team"}

\* keys of the registry object
SECTION_COMPONENTS ==
  {"navbar", "hero", "features", "pricing", "testimonials", "footer",
   "contact", "cta", "stats", "faq", "logoCloud", "newsletter", "team",
   "timeline"}

\* The registry is an object literal, so besides its own keys a property
\* read reaches the members it inherits from Object.prototype; all of them
\* are functions or objects, hence truthy.
ObjectPrototypeKeys ==
  {"constructor", "toString", "toLocaleString", "valueOf", "hasOwnProperty",
   "isPrototypeOf", "propertyIsEnumerable", "__proto__", "__defineGetter__",
   "__defineSetter__", "__lookupGetter__", "__lookupSetter__"}

\* the value of a property read that finds nothing
Undefined == [kind |-> "undefined"]

\* SECTION_COMPONENTS[section.type]: the component registered under the
\* type, else the inherited member of that name, else undefined
Lookup(type) ==
  IF type \in SECTION_COMPONENTS THEN [kind |-> "component", name |-> type]
  ELSE IF type \in ObjectPrototypeKeys THEN [kind |-> "inherited", name |-> type]
  ELSE Undefined

\* the element parameter of updateSectionTypography
TextElements == {"title", "subtitle", "description"}

\* keys of TextElementStyle
TextElementStyleKeys == {"fontSize", "fontWeight", "color", "fontFamily"}

\* keys of AccessibilitySettings
AccessibilityKeys == {"highContrast", "reducedMotion", "showAriaLabels"}

\* useState initial value of designSystem
InitialDesignSystem ==
  [primaryColor |-> "#4f46e5", borderRadius |-> "0.75rem", fontFamily |-> "Inter",
   accessibility |-> [highContrast |-> FALSE, reducedMotion |-> FALSE,
                      showAriaLabels |-> TRUE]]

(* --------------------------- input domains ----------------------------- *)
\* values typed into the prompt textarea / the refine input
Prompts == {<<>>, <<" ">>, <<"a">>}

\* SUGGESTIONS[i].prompt
SuggestionPrompts == {<<"a">>}

\* values typed into the typography inputs
FontSizes == {"3rem"}
TextColors == {"#000"}

\* values picked in the Global Styles inputs
PrimaryColors == {"#123456"}
BorderRadii == {"1rem"}

BaseStyle == [theme |-> "light", padding |-> "medium", alignment |-> "center"]

\* Documents the AI collaborator may answer with ({sections, designSystem}).
\* The collaborator is a trust boundary: a type outside the enumeration may
\* come back.
AIResponses ==
  { [sections |->
       << [id |-> "s2", type |-> "hero",
           content |-> [title |-> "Hello", subtitle |-> "World"],
           style |-> [theme |-> "dark", padding |-> "large", alignment |-> "left",
                      backgroundImage |-> "bg.png",
                      typography |-> [title |-> [fontSize |-> "2rem"]]]] >>,
     designSystem |->
       [primaryColor |-> "#00ff00", borderRadius |-> "0", fontFamily |-> "Roboto",
        accessibility |-> [highContrast |-> TRUE, reducedMotion |-> FALSE,
                           showAriaLabels |-> FALSE]]],
    [sections |->
       << [id |-> "s3", type |-> "unknownFutureType", content |-> EmptyObj,
           style |-> [theme |-> "accent", padding |-> "medium",
                      alignment |-> "center", typography |-> EmptyObj]],
          [id |-> "s1", type |-> "footer", content |-> [description |-> "bye"],
           style |-> BaseStyle] >>,
     designSystem |->
       [primaryColor |-> "#ff0000", borderRadius |-> "0.75rem", fontFamily |-> "Inter",
        accessibility |-> [highContrast |-> FALSE, reducedMotion |-> TRUE,
                           showAriaLabels |-> TRUE]]] }

\* the SavedProject list found in localStorage at mount
StoredProjects ==
  << [id |-> "p1", name |-> "Landing", prompt |-> <<"a">>, timestamp |-> "t1",
      sections |->
        << [id |-> "s1", type |-> "hero", content |-> [title |-> "Saved"],
            style |-> [theme |-> "dark", padding |-> "small", alignment |-> "left",
                       typography |-> [subtitle |-> [color |-> "#fff"]]]] >>,
      designSystem |->
        [primaryColor |-> "#ff0000", borderRadius |-> "0", fontFamily |-> "Inter",
         accessibility |-> [highContrast |-> TRUE, reducedMotion |-> TRUE,
                            showAriaLabels |-> TRUE]]] >>

\* every section id that can occur
SectionIds == {"s1", "s2", "s3"}

\* selectedId === null
Null == "null"

(* ------------------------------ state ---------------------------------- *)
\* the state after the first render and the mount effect
Init ==
  /\ prompt = <<>>
  /\ sections = <<>>
  /\ designSystem = InitialDesignSystem
  /\ isGenerating = FALSE
  /\ savedProjects = StoredProjects
  /\ activeTab = "design"
  /\ selectedId = Null
  /\ inflight = {}
  /\ issued = 0
  /\ edits = 0
  /\ lastOp = [op |-> "mount"]

\* sections.find(s => s.id === selectedId) is defined
HasSelectedSection == \E i \in 1..Len(sections) : sections[i].id = selectedId

(* ------------------------- plain UI handlers --------------------------- *)
\* tab buttons: onClick={() => setActiveTab(t)}
SetActiveTab(t) ==
  /\ activeTab' = t
  /\ lastOp' = [op |-> "ui"]
  /\ UNCHANGED <<prompt, sections, designSystem, isGenerating, savedProjects,
                 selectedId, inflight, issued, edits>>

\* textarea onChange={(e) => setPrompt(e.target.value)}
SetPrompt(p) ==
  /\ activeTab = "design"
  /\ prompt' = p
  /\ lastOp' = [op |-> "ui"]
  /\ UNCHANGED <<sections, designSystem, isGenerating, savedProjects, activeTab,
                 selectedId, inflight, issued, edits>>

\* handleSuggestionClick, offered on the empty-canvas screen
HandleSuggestionClick(p) ==
  /\ Len(sections) = 0
  /\ ~isGenerating
  /\ prompt' = p
  /\ activeTab' = "design"
  /\ lastOp' = [op |-> "ui"]
  /\ UNCHANGED <<sections, designSystem, isGenerating, savedProjects,
                 selectedId, inflight, issued, edits>>

\* section wrapper onClick={() => setSelectedId(section.id)}; only sections
\* with a registered component are rendered, and the busy overlay covers
\* the canvas while isGenerating
SectionClick(i) ==
  /\ i \in 1..Len(sections)
  /\ Lookup(sections[i].type) # Undefined
  /\ ~isGenerating
  /\ selectedId' = sections[i].id
  /\ lastOp' = [op |-> "ui"]
  /\ UNCHANGED <<prompt, sections, designSystem, isGenerating, savedProjects,
                 activeTab, inflight, issued, edits>>

(* ----------------------------- AI calls -------------------------------- *)
\* handleGenerate, up to the await.  The button is in the design tab and is
\* disabled={isGenerating || !prompt}.
HandleGenerate ==
  /\ activeTab = "design"
  /\ ~isGenerating
  /\ prompt # <<>>
  /\ IF Trim(prompt) = <<>>
       THEN /\ lastOp' = [op |-> "generateReturn"]
            /\ UNCHANGED <<isGenerating, inflight, issued>>
       ELSE /\ issued < MaxRequests
            /\ isGenerating' = TRUE
            /\ issued' = issued + 1
            /\ inflight' = inflight \cup {[id |-> issued + 1, kind |-> "generate"]}
            /\ lastOp' = [op |-> "generate", req |-> issued + 1]
  /\ UNCHANGED <<prompt, sections, designSystem, savedProjects, activeTab,
                 selectedId, edits>>

\* handleRefine, up to the await.  The refine input is rendered while
\* sections.length > 0 and is not disabled while a call is pending.
HandleRefine(refinementPrompt) ==
  /\ Len(sections) > 0
  /\ IF Trim(refinementPrompt) = <<>>
       THEN /\ lastOp' = [op |-> "refineReturn"]
            /\ UNCHANGED <<isGenerating, inflight, issued>>
       ELSE /\ issued < MaxRequests
            /\ isGenerating' = TRUE
            /\ issued' = issued + 1
            /\ inflight' = inflight \cup {[id |-> issued + 1, kind |-> "refine"]}
            /\ lastOp' = [op |-> "refine", req |-> issued + 1]
  /\ UNCHANGED <<prompt, sections, designSystem, savedProjects, activeTab,
                 selectedId, edits>>

\* a continuation that takes the sections but keeps the old designSystem
GenerateResolvedSectionsOnly(r, data) ==
  /\ r \in inflight
  /\ r.kind = "generate"
  /\ sections' = data.sections
  /\ activeTab' = "layers"
  /\ isGenerating' = FALSE
  /\ inflight' = inflight \ {r}
  /\ lastOp' = [op |-> "generateResolved", req |-> r.id, data |-> data]
  /\ UNCHANGED <<prompt, designSystem, savedProjects, selectedId, issued, edits>>

\* handleGenerate after the await, generateLayout resolved with data
GenerateResolved(r, data) ==
  /\ r \in inflight
  /\ r.kind = "generate"
  /\ sections' = data.sections
  /\ designSystem' = data.designSystem
  /\ activeTab' = "layers"
  /\ isGenerating' = FALSE
  /\ inflight' = inflight \ {r}
  /\ lastOp' = [op |-> "generateResolved", req |-> r.id, data |-> data]
  /\ UNCHANGED <<prompt, savedProjects, selectedId, issued, edits>>

\* a catch block that clears the canvas on failure
GenerateRejectedClears(r) ==
  /\ r \in inflight
  /\ r.kind = "generate"
  /\ sections' = <<>>
  /\ isGenerating' = FALSE
  /\ inflight' = inflight \ {r}
  /\ lastOp' = [op |-> "generateRejected", req |-> r.id]
  /\ UNCHANGED <<prompt, designSystem, savedProjects, activeTab, selectedId,
                 issued, edits>>

\* handleGenerate after the await, generateLayout rejected: catch + finally
GenerateRejected(r) ==
  /\ r \in inflight
  /\ r.kind = "generate"
  /\ isGenerating' = FALSE
  /\ inflight' = inflight \ {r}
  /\ lastOp' = [op |-> "generateRejected", req |-> r.id]
  /\ UNCHANGED <<prompt, sections, designSystem, savedProjects, activeTab,
                 selectedId, issued, edits>>

\* handleRefine after the await, refineLayout resolved with data
RefineResolved(r, data) ==
  /\ r \in inflight
  /\ r.kind = "refine"
  /\ sections' = data.sections
  /\ isGenerating' = FALSE
  /\ inflight' = inflight \ {r}
  /\ lastOp' = [op |-> "refineResolved", req |-> r.id, data |-> data]
  /\ UNCHANGED <<prompt, designSystem, savedProjects, activeTab, selectedId,
                 issued, edits>>

\* a handleRefine whose failure path has no finally block
RefineRejectedKeepsBusy(r) ==
  /\ r \in inflight
  /\ r.kind = "refine"
  /\ inflight' = inflight \ {r}
  /\ lastOp' = [op |-> "refineRejected", req |-> r.id]
  /\ UNCHANGED <<prompt, sections, designSystem, isGenerating, savedProjects,
                 activeTab, selectedId, issued, edits>>

\* handleRefine after the await, refineLayout rejected: catch + finally
RefineRejected(r) ==
  /\ r \in inflight
  /\ r.kind = "refine"
  /\ isGenerating' = FALSE
  /\ inflight' = inflight \ {r}
  /\ lastOp' = [op |-> "refineRejected", req |-> r.id]
  /\ UNCHANGED <<prompt, sections, designSystem, savedProjects, activeTab,
                 selectedId, issued, edits>>

(* ---------------------------- mutations -------------------------------- *)
\* an updater that replaces the element's entry by the partial style
updateSectionTypographyOverwrite(prev, id, element, style) ==
  [i \in 1..Len(prev) |->
     IF prev[i].id # id THEN prev[i]
     ELSE LET s == prev[i]
              currentTypography == OrEmpty(s.style, "typography")
          IN Spread(s,
               [style |->
                  Spread(s.style,
                    [typography |-> Spread(currentTypography, element :> style)])])]

\* an updater whose id test is inverted
updateSectionTypographyInverted(prev, id, element, style) ==
  [i \in 1..Len(prev) |->
     IF prev[i].id = id THEN prev[i]
     ELSE LET s == prev[i]
              currentTypography == OrEmpty(s.style, "typography")
          IN Spread(s,
               [style |->
                  Spread(s.style,
                    [typography |->
                       Spread(currentTypography,
                              element :> Spread(OrEmpty(currentTypography, element),
                                                style))])])]

\* an updater that forgets to spread the old style
updateSectionTypographyDropsStyle(prev, id, element, style) ==
  [i \in 1..Len(prev) |->
     IF prev[i].id # id THEN prev[i]
     ELSE LET s == prev[i]
              currentTypography == OrEmpty(s.style, "typography")
          IN Spread(s,
               [style |->
                  [typography |->
                     Spread(currentTypography,
                            element :> Spread(OrEmpty(currentTypography, element),
                                              style))]])]

\* the updater passed to setSections by updateSectionTypography
updateSectionTypography(prev, id, element, style) ==
  [i \in 1..Len(prev) |->
     IF prev[i].id # id THEN prev[i]
     ELSE LET s == prev[i]
              currentTypography == OrEmpty(s.style, "typography")
          IN Spread(s,
               [style |->
                  Spread(s.style,
                    [typography |->
                       Spread(currentTypography,
                              element :> Spread(OrEmpty(currentTypography, element),
                                                style))])])]

\* the partial styles the typography inputs pass: { fontSize } or { color }
InputStyles ==
  {[fontSize |-> v] : v \in FontSizes} \cup {[color |-> v] : v \in TextColors}

\* typography inputs of the layers panel, rendered while
\* activeTab === 'layers' && selectedSection
TypographyInput(element, style) ==
  /\ activeTab = "layers"
  /\ HasSelectedSection
  /\ edits < MaxEdits
  /\ edits' = edits + 1
  /\ sections' = updateSectionTypography(sections, selectedId, element, style)
  /\ lastOp' = [op |-> "typography", id |-> selectedId, element |-> element,
                style |-> style]
  /\ UNCHANGED <<prompt, designSystem, isGenerating, savedProjects, activeTab,
                 selectedId, inflight, issued>>

\* {...designSystem, [key]: value}
patchToken(ds, key, value) == Spread(ds, key :> value)

\* a toggle that forgets to spread the old accessibility record
toggleAccessibilityShallow(ds, key) ==
  Spread(ds, [accessibility |->
                Spread(InitialDesignSystem.accessibility,
                       key :> ~ds.accessibility[key])])

\* {...designSystem, accessibility: {...designSystem.accessibility, [key]: !designSystem.accessibility[key]}}
toggleAccessibility(ds, key) ==
  Spread(ds, [accessibility |->
                Spread(ds.accessibility, key :> ~ds.accessibility[key])])

\* Global Styles inputs (primaryColor, borderRadius) of the design tab
GlobalStyleInput(key, value) ==
  /\ activeTab = "design"
  /\ edits < MaxEdits
  /\ edits' = edits + 1
  /\ designSystem' = patchToken(designSystem, key, value)
  /\ lastOp' = [op |-> "token", key |-> key, value |-> value]
  /\ UNCHANGED <<prompt, sections, isGenerating, savedProjects, activeTab,
                 selectedId, inflight, issued>>

\* Accessibility Options toggle buttons of the design tab
AccessibilityToggle(key) ==
  /\ activeTab = "design"
  /\ edits < MaxEdits
  /\ edits' = edits + 1
  /\ designSystem' = toggleAccessibility(designSystem, key)
  /\ lastOp' = [op |-> "toggle", key |-> key]
  /\ UNCHANGED <<prompt, sections, isGenerating, savedProjects, activeTab,
                 selectedId, inflight, issued>>

\* loadProject(p) from the gallery tab, p an element of savedProjects
LoadProject(n) ==
  /\ activeTab = "gallery"
  /\ n \in 1..Len(savedProjects)
  /\ prompt' = savedProjects[n].prompt
  /\ sections' = savedProjects[n].sections
  /\ designSystem' = savedProjects[n].designSystem
  /\ selectedId' = Null
  /\ activeTab' = "layers"
  /\ lastOp' = [op |-> "loadProject", project |-> n]
  /\ UNCHANGED <<isGenerating, savedProjects, inflight, issued, edits>>

(* -------------------------- specification ------------------------------ *)
Next ==
  \/ \E t \in {"design", "layers", "gallery"} : SetActiveTab(t)
  \/ \E p \in Prompts : SetPrompt(p)
  \/ \E p \in SuggestionPrompts : HandleSuggestionClick(p)
  \/ \E i \in 1..Len(sections) : SectionClick(i)
  \/ HandleGenerate
  \/ \E p \in Prompts : HandleRefine(p)
  \/ \E r \in inflight, data \in AIResponses : GenerateResolved(r, data)
  \/ \E r \in inflight : GenerateRejected(r)
  \/ \E r \in inflight, data \in AIResponses : RefineResolved(r, data)
  \/ \E r \in inflight : RefineRejected(r)
  \/ \E element \in TextElements, style \in InputStyles :
       TypographyInput(element, style)
  \/ \E c \in PrimaryColors : GlobalStyleInput("primaryColor", c)
  \/ \E b \in BorderRadii : GlobalStyleInput("borderRadius", b)
  \/ \E key \in AccessibilityKeys : AccessibilityToggle(key)
  \/ \E n \in 1..Len(savedProjects) : LoadProject(n)

Spec == Init /\ [][Next]_vars

\* partial styles a caller may pass (Partial<TextElementStyle>): those of
\* the panel, two fields at once, another field, and the empty patch
CallStyles ==
  InputStyles \cup
    {[fontSize |-> "3rem", color |-> "#000"], [fontWeight |-> "700"], EmptyObj}

\* ids a caller may pass: those of the model's sections and a stale one
CallIds == SectionIds \cup {"nonexistent"}

\* updateSectionTypography called as a function, with any id and any
\* partial style (the panel only ever passes selectedId)
UpdateSectionTypographyCall(id, element, style) ==
  /\ edits < MaxCalls
  /\ edits' = edits + 1
  /\ sections' = updateSectionTypography(sections, id, element, style)
  /\ lastOp' = [op |-> "typography", id |-> id, element |-> element,
                style |-> style]
  /\ UNCHANGED <<prompt, designSystem, isGenerating, savedProjects, activeTab,
                 selectedId, inflight, issued>>

\* the design-system token patch applied as a function
DesignTokenCall(key, value) ==
  /\ edits < MaxCalls
  /\ edits' = edits + 1
  /\ designSystem' = patchToken(designSystem, key, value)
  /\ lastOp' = [op |-> "token", key |-> key, value |-> value]
  /\ UNCHANGED <<prompt, sections, isGenerating, savedProjects, activeTab,
                 selectedId, inflight, issued>>

\* the accessibility toggle applied as a function
AccessibilityToggleCall(key) ==
  /\ edits < MaxCalls
  /\ edits' = edits + 1
  /\ designSystem' = toggleAccessibility(designSystem, key)
  /\ lastOp' = [op |-> "toggle", key |-> key]
  /\ UNCHANGED <<prompt, sections, isGenerating, savedProjects, activeTab,
                 selectedId, inflight, issued>>

\* the states of Spec in which a Document has just been put in place: right
\* after loadProject of a stored project, or right after a first generation
InitFn ==
  /\ savedProjects = StoredProjects
  /\ isGenerating = FALSE
  /\ inflight = {}
  /\ selectedId = Null
  /\ activeTab = "layers"
  /\ edits = 0
  /\ \/ \E n \in 1..Len(StoredProjects) :
          /\ prompt = StoredProjects[n].prompt
          /\ sections = StoredProjects[n].sections
          /\ designSystem = StoredProjects[n].designSystem
          /\ issued = 0
          /\ lastOp = [op |-> "loadProject", project |-> n]
     \/ \E data \in AIResponses :
          /\ prompt = <<"a">>
          /\ sections = data.sections
          /\ designSystem = data.designSystem
          /\ issued = 1
          /\ lastOp = [op |-> "generateResolved", req |-> 1, data |-> data]

NextFn ==
  \/ \E id \in CallIds, element \in TextElements, style \in CallStyles :
       UpdateSectionTypographyCall(id, element, style)
  \/ \E c \in PrimaryColors : DesignTokenCall("primaryColor", c)
  \/ \E b \in BorderRadii : DesignTokenCall("borderRadius", b)
  \/ \E key \in AccessibilityKeys : AccessibilityToggleCall(key)

\* the Document's mutation operations applied, as functions, to the
\* Documents the program puts in place: updateSectionTypography with any
\* (id, element, style), and the design-system patches
SpecFn == InitFn /\ [][NextFn]_vars

(* ------------------------------ canvas --------------------------------- *)
\* longest Document the render is applied to
MaxSections == 3

\* types of the sections handed to the render: two enumerated ones, one
\* that no object knows, one that names an inherited member
RenderTypes == {"hero", "navbar", "unknownFutureType", "toString"}

\* ids of the sections handed to the render
RenderIds == {"s1", "s2"}

RenderSectionPool ==
  {[id |-> i, type |-> t, content |-> EmptyObj, style |-> BaseStyle] :
     i \in RenderIds, t \in RenderTypes}

\* every section list of at most MaxSections sections
RenderDocuments ==
  UNION {[1..n -> RenderSectionPool] : n \in 0..MaxSections}

\* sections.map(section => Component ? <div key={section.id}>...</div> : null)
\* a null child renders nothing, so the output is the list of the wrappers
RECURSIVE RenderSections(_)
RenderSections(secs) ==
  IF secs = <<>> THEN <<>>
  ELSE LET section == Head(secs)
           Component == Lookup(section.type)
       IN (IF Component # Undefined
             THEN <<[key |-> section.id, Component |-> Component,
                     section |-> section]>>
             ELSE <<>>) \o RenderSections(Tail(secs))

\* one render of the canvas over the current sections
RenderCanvas ==
  /\ Len(sections) > 0
  /\ lastOp' = [op |-> "render", output |-> RenderSections(sections)]
  /\ UNCHANGED <<prompt, sections, designSystem, isGenerating, savedProjects,
                 activeTab, selectedId, inflight, issued, edits>>

\* the states right after a first generation answered with any section list
InitRender ==
  /\ prompt = <<"a">>
  /\ sections \in RenderDocuments
  /\ designSystem = InitialDesignSystem
  /\ isGenerating = FALSE
  /\ savedProjects = StoredProjects
  /\ activeTab = "layers"
  /\ selectedId = Null
  /\ inflight = {}
  /\ issued = 1
  /\ edits = 0
  /\ lastOp = [op |-> "generateResolved", req |-> 1,
               data |-> [sections |-> sections,
                         designSystem |-> InitialDesignSystem]]

NextRender ==
  \/ RenderCanvas
  \/ \E i \in 1..MaxSections : SectionClick(i)

\* the canvas render applied to every bounded section list, and the clicks
\* its wrappers accept
SpecRender == InitRender /\ [][NextRender]_vars

(* --------------------------- JSON export ------------------------------- *)
\* JSON text is a sequence of tokens [t, v]: "{" "}" "[" "]", a member key,
\* a string literal, or one of the literals true / false.  Separators and
\* the 2-space indentation carry no information and are not represented.
Tok(t, v) == <<[t |-> t, v |-> v]>>

\* a string value
StringJSON(str) == Tok("str", str)

\* a boolean value
BooleanJSON(b) == Tok("lit", IF b THEN "true" ELSE "false")

\* the members of an object whose values are all strings, in key order;
\* a key that is undefined is omitted
RECURSIVE StringMembersJSON(_, _)
StringMembersJSON(obj, keys) ==
  IF keys = <<>> THEN <<>>
  ELSE (IF Head(keys) \in DOMAIN obj
          THEN Tok("key", Head(keys)) \o StringJSON(obj[Head(keys)])
          ELSE <<>>)
       \o StringMembersJSON(obj, Tail(keys))

\* the members of an object whose values are all booleans
RECURSIVE BooleanMembersJSON(_, _)
BooleanMembersJSON(obj, keys) ==
  IF keys = <<>> THEN <<>>
  ELSE (IF Head(keys) \in DOMAIN obj
          THEN Tok("key", Head(keys)) \o BooleanJSON(obj[Head(keys)])
          ELSE <<>>)
       \o BooleanMembersJSON(obj, Tail(keys))

\* a TextElementStyle
TextElementStyleJSON(style) ==
  Tok("{", "") \o
  StringMembersJSON(style, <<"fontSize", "fontWeight", "color", "fontFamily">>)
  \o Tok("}", "")

\* the members of style.typography
RECURSIVE TypographyMembersJSON(_, _)
TypographyMembersJSON(typography, keys) ==
  IF keys = <<>> THEN <<>>
  ELSE (IF Head(keys) \in DOMAIN typography
          THEN Tok("key", Head(keys)) \o TextElementStyleJSON(typography[Head(keys)])
          ELSE <<>>)
       \o TypographyMembersJSON(typography, Tail(keys))

\* a serializer that prunes an empty typography map
StyleJSONPrunesEmpty(style) ==
  Tok("{", "") \o
  StringMembersJSON(style, <<"theme", "padding", "alignment", "backgroundImage">>) \o
  (IF "typography" \in DOMAIN style /\ style.typography # EmptyObj
     THEN Tok("key", "typography") \o Tok("{", "") \o
          TypographyMembersJSON(style.typography, <<"title", "subtitle", "description">>)
          \o Tok("}", "")
     ELSE <<>>)
  \o Tok("}", "")

\* LayoutSection.style
StyleJSON(style) ==
  Tok("{", "") \o
  StringMembersJSON(style, <<"theme", "padding", "alignment", "backgroundImage">>) \o
  (IF "typography" \in DOMAIN style
     THEN Tok("key", "typography") \o Tok("{", "") \o
          TypographyMembersJSON(style.typography, <<"title", "subtitle", "description">>)
          \o Tok("}", "")
     ELSE <<>>)
  \o Tok("}", "")

\* a LayoutSection
SectionJSON(s) ==
  Tok("{", "") \o
  StringMembersJSON(s, <<"id", "type">>) \o
  Tok("key", "content") \o Tok("{", "") \o
  StringMembersJSON(s.content, <<"title", "subtitle", "description">>) \o Tok("}", "") \o
  Tok("key", "style") \o StyleJSON(s.style)
  \o Tok("}", "")

\* the elements of the sections array
RECURSIVE SectionsJSON(_)
SectionsJSON(secs) ==
  IF secs = <<>> THEN <<>> ELSE SectionJSON(Head(secs)) \o SectionsJSON(Tail(secs))

\* the DesignSystem
DesignSystemJSON(ds) ==
  Tok("{", "") \o
  StringMembersJSON(ds, <<"primaryColor", "borderRadius", "fontFamily">>) \o
  Tok("key", "accessibility") \o Tok("{", "") \o
  BooleanMembersJSON(ds.accessibility,
                     <<"highContrast", "reducedMotion", "showAriaLabels">>)
  \o Tok("}", "")
  \o Tok("}", "")

\* JSON.stringify({ sections, designSystem }, null, 2)
JSONstringify(doc) ==
  Tok("{", "") \o
  Tok("key", "sections") \o Tok("[", "") \o SectionsJSON(doc.sections) \o Tok("]", "") \o
  Tok("key", "designSystem") \o DesignSystemJSON(doc.designSystem)
  \o Tok("}", "")

\* JSON.parse: a recursive-descent parser returning the value read and the
\* tokens left; a repeated key keeps its last value
RECURSIVE ParseValue(_)
RECURSIVE ParseMembers(_, _)
RECURSIVE ParseElements(_, _)

ParseValue(toks) ==
  LET h == Head(toks)
  IN CASE h.t = "str" -> [val |-> h.v, rest |-> Tail(toks)]
       [] h.t = "lit" -> [val |-> (h.v = "true"), rest |-> Tail(toks)]
       [] h.t = "{" -> ParseMembers(Tail(toks), EmptyObj)
       [] h.t = "[" -> ParseElements(Tail(toks), <<>>)

ParseMembers(toks, acc) ==
  IF Head(toks).t = "}" THEN [val |-> acc, rest |-> Tail(toks)]
  ELSE LET member == ParseValue(Tail(toks))
       IN ParseMembers(member.rest, Spread(acc, Head(toks).v :> member.val))

ParseElements(toks, acc) ==
  IF Head(toks).t = "]" THEN [val |-> acc, rest |-> Tail(toks)]
  ELSE LET element == ParseValue(toks)
       IN ParseElements(element.rest, Append(acc, element.val))

JSONparse(text) == ParseValue(text).val

\* the Document on screen after loadProject of a parsed export
Reloaded(text) ==
  LET project == JSONparse(text)
  IN [sections |-> project.sections, designSystem |-> project.designSystem]

(* ------------------------------ helpers -------------------------------- *)
SectionIdsOf(secs) == {secs[i].id : i \in 1..Len(secs)}

ResolvedOps == {"generateResolved", "refineResolved"}
RejectedOps == {"generateRejected", "refineRejected"}
IssueOps == {"generate", "refine"}

DocumentUnchanged == sections' = sections /\ designSystem' = designSystem

(* ------------------------------- claims -------------------------------- *)
\* C1: a response to a request that is no longer the most recently issued
\* one never replaces the Document (only the response matching the latest
\* request is acted on).
C1_StaleResponseDiscarded ==
  [][(lastOp'.op \in ResolvedOps /\ lastOp'.req # issued) => DocumentUnchanged]_vars

\* C2: the steps of a request whose AI call rejects (issuing the call, then
\* the catch/finally continuation) leave sections and designSystem as they
\* were; nothing of a failed generation is applied.
C2_FailedRequestLeavesDocument ==
  [][lastOp'.op \in IssueOps \cup RejectedOps => DocumentUnchanged]_vars

\* C2 witness: a generation has just failed over a non-empty Document
C2_Witness ==
  /\ lastOp.op = "generateRejected"
  /\ Len(sections) > 0

\* C3: after a refinement response {sections, designSystem} is applied, the
\* live sections and the live designSystem both equal the response's.
C3_RefineReplacesDocument ==
  lastOp.op = "refineResolved" =>
    /\ sections = lastOp.data.sections
    /\ designSystem = lastOp.data.designSystem

\* C4: after a successful handleGenerate response, or a loadProject of a
\* stored project, sections and designSystem equal exactly the incoming
\* ones, whatever the Document was before.
C4_FullReplacement ==
  /\ lastOp.op = "generateResolved" =>
       /\ sections = lastOp.data.sections
       /\ designSystem = lastOp.data.designSystem
  /\ lastOp.op = "loadProject" =>
       /\ sections = savedProjects[lastOp.project].sections
       /\ designSystem = savedProjects[lastOp.project].designSystem

\* C4 witness: a generation response has replaced a Document that had been
\* patched by hand (an edit was made before it)
C4_Witness ==
  /\ lastOp.op = "generateResolved"
  /\ edits > 0
  /\ sections = lastOp.data.sections

\* the typography entry of a section for an element, {} when not set
TypographyOf(s, element) == OrEmpty(OrEmpty(s.style, "typography"), element)

\* C5: after updateSectionTypography(id, element, partial) every section
\* with that id has a style.typography[element] holding each field of partial
\* with partial's value and each previously set field that partial does not
\* name with its previous value; the map and the entry are created if absent.
C5_TypographyMergesPerField ==
  [][lastOp'.op = "typography" =>
       /\ Len(sections') = Len(sections)
       /\ \A i \in 1..Len(sections) :
            sections[i].id = lastOp'.id =>
              LET old == TypographyOf(sections[i], lastOp'.element)
                  partial == lastOp'.style
              IN /\ "typography" \in DOMAIN sections'[i].style
                 /\ lastOp'.element \in DOMAIN sections'[i].style.typography
                 /\ LET new == sections'[i].style.typography[lastOp'.element]
                    IN /\ \A f \in DOMAIN partial :
                            f \in DOMAIN new /\ new[f] = partial[f]
                       /\ \A f \in (DOMAIN old) \ (DOMAIN partial) :
                            f \in DOMAIN new /\ new[f] = old[f]]_vars

\* C5 witness: a color patch has been merged into an entry that already had
\* a fontSize, and both are there
C5_Witness ==
  /\ lastOp.op = "typography"
  /\ DOMAIN lastOp.style = {"color"}
  /\ \E i \in 1..Len(sections) :
       /\ sections[i].id = lastOp.id
       /\ DOMAIN TypographyOf(sections[i], lastOp.element) = {"fontSize", "color"}
       /\ TypographyOf(sections[i], lastOp.element).fontSize = "2rem"

\* C6: updateSectionTypography with an id that no section has leaves the
\* Document as it was: same sections in the same order with the same values.
C6_AbsentIdIsNoOp ==
  [][(lastOp'.op = "typography" /\ lastOp'.id \notin SectionIdsOf(sections))
       => DocumentUnchanged]_vars

\* C6 witness: a patch naming an absent id has been applied to a non-empty
\* Document
C6_Witness ==
  /\ lastOp.op = "typography"
  /\ lastOp.id \notin SectionIdsOf(sections)
  /\ Len(sections) > 1

\* C7: a typography patch changes nothing but style.typography[element] of
\* the sections with the given id: number, order, ids and types of sections,
\* the other sections, the matching section's content and other style keys,
\* the entries of the other elements, and the designSystem all stay.
C7_TypographyFrame ==
  [][lastOp'.op = "typography" =>
       /\ designSystem' = designSystem
       /\ Len(sections') = Len(sections)
       /\ \A i \in 1..Len(sections) :
            LET s == sections[i]
                t == sections'[i]
            IN /\ t.id = s.id
               /\ t.type = s.type
               /\ s.id # lastOp'.id => t = s
               /\ t.content = s.content
               /\ DOMAIN t = DOMAIN s
               /\ (DOMAIN t.style) \ {"typography"} = (DOMAIN s.style) \ {"typography"}
               /\ \A k \in (DOMAIN s.style) \ {"typography"} : t.style[k] = s.style[k]
               /\ \A e \in TextElements \ {lastOp'.element} :
                    /\ e \in DOMAIN OrEmpty(t.style, "typography")
                         <=> e \in DOMAIN OrEmpty(s.style, "typography")
                    /\ TypographyOf(t, e) = TypographyOf(s, e)]_vars

\* C7 witness: a patch has been applied to a section that has a background
\* image and an entry for another element
C7_Witness ==
  /\ lastOp.op = "typography"
  /\ lastOp.element = "subtitle"
  /\ \E i \in 1..Len(sections) :
       /\ sections[i].id = lastOp.id
       /\ "backgroundImage" \in DOMAIN sections[i].style
       /\ "title" \in DOMAIN sections[i].style.typography

\* C8: an accessibility toggle flips exactly its flag and leaves the other
\* two flags and the three tokens alone; a primaryColor or borderRadius input
\* sets that token and leaves every other token and the three flags alone;
\* neither changes the sections.
C8_DesignSystemPatchFrame ==
  [][/\ lastOp'.op = "toggle" =>
          /\ sections' = sections
          /\ DOMAIN designSystem' = DOMAIN designSystem
          /\ \A k \in (DOMAIN designSystem) \ {"accessibility"} :
               designSystem'[k] = designSystem[k]
          /\ DOMAIN designSystem'.accessibility = AccessibilityKeys
          /\ \A k \in AccessibilityKeys :
               designSystem'.accessibility[k] =
                 IF k = lastOp'.key THEN ~designSystem.accessibility[k]
                                    ELSE designSystem.accessibility[k]
     /\ lastOp'.op = "token" =>
          /\ sections' = sections
          /\ DOMAIN designSystem' = DOMAIN designSystem
          /\ designSystem'[lastOp'.key] = lastOp'.value
          /\ \A k \in (DOMAIN designSystem) \ {lastOp'.key} :
               designSystem'[k] = designSystem[k]]_vars

\* C8 witness: after a primaryColor patch, highContrast has been toggled on
\* while reducedMotion was on; reducedMotion is still on and the patched
\* color is still there
C8_Witness ==
  /\ lastOp.op = "toggle"
  /\ lastOp.key = "highContrast"
  /\ edits = 2
  /\ designSystem.accessibility.highContrast
  /\ designSystem.accessibility.reducedMotion
  /\ designSystem.primaryColor = "#123456"

\* C9: whenever at least one handleGenerate or handleRefine request is
\* pending, isGenerating is true.
C9_BusyWhilePending == inflight # {} => isGenerating

\* C10: parsing the JSON export of the live Document and loading the result
\* as a full replacement gives a Document structurally equal to it: same
\* sections in the same order with the same ids and field values, and the
\* same designSystem.
C10_JsonRoundTrip ==
  LET doc == [sections |-> sections, designSystem |-> designSystem]
      text == JSONstringify(doc)
  IN /\ ParseValue(text).rest = <<>>
     /\ Reloaded(text) = doc

\* C10 witness: the exported Document has two sections, an empty content,
\* an empty typography map and a typography entry made by a patch
C10_Witness ==
  /\ Len(sections) = 2
  /\ sections[1].content = EmptyObj
  /\ sections[1].style.typography = EmptyObj
  /\ "typography" \in DOMAIN sections[2].style
  /\ lastOp.op = "typography"
  /\ C10_JsonRoundTrip

(* ------------------------------- C11 ----------------------------------- *)
\* indices of the sections whose type has a registry entry
RegisteredIndices ==
  {i \in 1..Len(sections) : sections[i].type \in SECTION_COMPONENTS}

\* C11: the rendered output contains exactly the sections whose type is
\* registered, in document order and keyed by their ids; a section whose
\* type has no registry entry is absent from it.
C11_UnknownTypesSkipped ==
  lastOp.op = "render" =>
    LET out == lastOp.output
        pos(i) == Cardinality({j \in RegisteredIndices : j <= i})
    IN /\ Len(out) = Cardinality(RegisteredIndices)
       /\ \A i \in RegisteredIndices :
            /\ out[pos(i)].key = sections[i].id
            /\ out[pos(i)].section = sections[i]

(* ------------------------------- C12 ----------------------------------- *)
\* C12: the registry has an entry for each of the 14 values of
\* LayoutSection.type and for no other key, so the lookup for any section
\* of an enumerated type finds its renderer and the render emits it.
C12_RegistryTotalAndClosed ==
  /\ Cardinality(SectionTypes) = 14
  /\ SECTION_COMPONENTS = SectionTypes
  /\ \A t \in SectionTypes : Lookup(t) = [kind |-> "component", name |-> t]
  /\ \A i \in 1..Len(sections) :
       sections[i].type \in SectionTypes =>
         /\ Lookup(sections[i].type).kind = "component"
         /\ lastOp.op = "render" =>
              \E k \in 1..Len(lastOp.output) :
                /\ lastOp.output[k].section = sections[i]
                /\ lastOp.output[k].Component.name = sections[i].type

\* a render of a Document holding sections of two enumerated types
C12_Witness ==
  /\ lastOp.op = "render"
  /\ Len(sections) = MaxSections
  /\ {"hero", "navbar"} \subseteq {sections[i].type : i \in 1..Len(sections)}
  /\ Len(lastOp.output) >= 2
  /\ C12_RegistryTotalAndClosed

(* ------------------------------- C13 ----------------------------------- *)
\* the promise of a pending AI call settles: its continuation runs
Settle ==
  \E r \in inflight :
    \/ \E data \in AIResponses : GenerateResolved(r, data)
    \/ GenerateRejected(r)
    \/ \E data \in AIResponses : RefineResolved(r, data)
    \/ RefineRejected(r)

\* Every handler that reads or writes isGenerating, the pending calls, the
\* prompt, the selection or the emptiness of the Document.  The typography
\* and design-system inputs touch none of them and are left out.
NextLive ==
  \/ \E t \in {"design", "layers", "gallery"} : SetActiveTab(t)
  \/ \E p \in Prompts : SetPrompt(p)
  \/ \E p \in SuggestionPrompts : HandleSuggestionClick(p)
  \/ \E i \in 1..Len(sections) : SectionClick(i)
  \/ HandleGenerate
  \/ \E p \in Prompts : HandleRefine(p)
  \/ \E r \in inflight, data \in AIResponses : GenerateResolved(r, data)
  \/ \E r \in inflight : GenerateRejected(r)
  \/ \E r \in inflight, data \in AIResponses : RefineResolved(r, data)
  \/ \E r \in inflight : RefineRejected(r)
  \/ \E n \in 1..Len(savedProjects) : LoadProject(n)

\* the AI-call side of the program under the assumption that every pending
\* call settles
SpecLive == Init /\ [][NextLive]_vars /\ WF_vars(Settle)

\* C13: whenever no handleGenerate or handleRefine request is in flight,
\* isGenerating is false; and, pending calls settling eventually, a raised
\* isGenerating eventually becomes false again, on success and on failure.
C13_BusyFlagDoesNotStick ==
  /\ [](inflight = {} => ~isGenerating)
  /\ isGenerating ~> ~isGenerating

\* the last of two overlapping calls has failed and nothing is pending
C13_Witness ==
  /\ lastOp.op \in RejectedOps
  /\ issued = MaxRequests
  /\ inflight = {}
  /\ ~isGenerating

(* ------------------------------- C14 ----------------------------------- *)
\* C14: the selection never dangles: in every reachable state selectedId is
\* null or the id of a section present in the current Document.
C14_SelectionNeverDangles ==
  selectedId = Null \/ selectedId \in SectionIdsOf(sections)

====
